---- MODULE Spec2Model ----
(***************************************************************************)
(* The maze session of the 3D search-algorithm simulation: the zustand     *)
(* store useMaze (maze generators, overlay operations, playback cursors,   *)
(* phase) and the GameOverlay component that drives it with React effects, *)
(* two timeouts and one interval.                                          *)
(*                                                                         *)
(* Execution model.  JavaScript runs every event handler and every timer   *)
(* callback to completion.  A store update made by a handler re-renders    *)
(* GameOverlay and its effects are flushed before the next timer task      *)
(* (useSyncExternalStore renders in the sync lane, whose passive effects   *)
(* are flushed with the commit).  One action of the model is therefore one *)
(* handler or callback together with the effects its store update          *)
(* triggers.  Arrays are 0-based in the source; grids are functions on     *)
(* 0..n-1 here, Position[] values are 1-based sequences.                    *)
(***************************************************************************)
EXTENDS Integers, Sequences, FiniteSets, TLC

(***************************************************************************)
(* Bounds of the exploration.                                              *)
(***************************************************************************)
\* longest path / visited sequence the solver returns
MaxLen == 2
\* number of random sources tried by the recursive backtracker
MaxSeed == 1
\* the largest preset index loadPresetMaze is called with
MaxPreset == 4
\* number of random sources the generator alone is run with
MaxShuffleSeed == 12

Null == "null"
\* a ref that holds no timer handle (handles are positive)
NoTimer == 0
\* stats: SolveStats | null, held as the set of at most one record
NoStats == {}

Pos(px, pz) == [x |-> px, z |-> pz]

Algorithm == {"astar", "bfs", "dfs", "ucs", "ids"}
GamePhase == {"menu", "solving", "visualizing", "moving", "completed"}
Difficulty == {"easy", "medium", "hard"}
VisualizationMode == {"instant", "step"}

DIFFICULTY_SIZES ==
  [easy   |-> [width |-> 11, height |-> 11],
   medium |-> [width |-> 15, height |-> 15],
   hard   |-> [width |-> 21, height |-> 21]]

(***************************************************************************)
(* Grid model.                                                             *)
(***************************************************************************)
NewCell(cx, cz, wall) ==
  [x |-> cx, z |-> cz, isWall |-> wall, isStart |-> FALSE, isEnd |-> FALSE,
   isPath |-> FALSE, isVisited |-> FALSE]

NewGrid(width, height, wall) ==
  [z \in 0..(height - 1) |-> [x \in 0..(width - 1) |-> NewCell(x, z, wall)]]

\* newMaze[pos.z] && newMaze[pos.z][pos.x]
HasCell(m, pos) == pos.z \in DOMAIN m /\ pos.x \in DOMAIN m[pos.z]

SetWall(m, cx, cz, wall) == [m EXCEPT ![cz][cx].isWall = wall]

(***************************************************************************)
(* generateRandomMaze: recursive backtracker.  rnd is the random source:   *)
(* rnd[<<x, z>>][i] is the index j drawn by Math.floor(Math.random()*(i+1))*)
(* in the i-th round of the shuffle made by carve(x, z).                   *)
(***************************************************************************)
\* a direction table with the sign of the second entry wrong: no way down
Directions_NoDown ==
  <<[dx |-> 0, dz |-> -2], [dx |-> 0, dz |-> -2],
    [dx |-> -2, dz |-> 0], [dx |-> 2, dz |-> 0]>>

Directions ==
  <<[dx |-> 0, dz |-> -2], [dx |-> 0, dz |-> 2],
    [dx |-> -2, dz |-> 0], [dx |-> 2, dz |-> 0]>>

\* [directions[i], directions[j]] = [directions[j], directions[i]], 0-based i, j
Swap(dirs, i, j) ==
  [dirs EXCEPT ![i + 1] = dirs[j + 1], ![j + 1] = dirs[i + 1]]

\* for (let i = directions.length - 1; i > 0; i--) swap(i, random j in 0..i)
Shuffle(dirs, js) == Swap(Swap(Swap(dirs, 3, js[3]), 2, js[2]), 1, js[1])

\* carve(x, z) is entered: the cell is opened, its directions are shuffled,
\* and its frame goes on the call stack
carveEnter(st, rnd, cx, cz) ==
  [m |-> SetWall(st.m, cx, cz, FALSE),
   stack |-> Append(st.stack,
                    [x |-> cx, z |-> cz, k |-> 1,
                     dirs |-> Shuffle(Directions, rnd[<<cx, cz>>])])]

\* one step of the running carve: the frame on top of the call stack looks at
\* its next direction (and calls carve on the neighbour two cells away if it
\* is an interior wall), or returns when its loop is over
carveStep(st, width, height, rnd) ==
  IF st.stack = <<>> THEN st
  ELSE
    LET top == Len(st.stack)
        f == st.stack[top]
    IN IF f.k > Len(f.dirs)
       THEN [st EXCEPT !.stack = SubSeq(@, 1, top - 1)]
       ELSE
         LET dir == f.dirs[f.k]
             newX == f.x + dir.dx
             newZ == f.z + dir.dz
             next == [st EXCEPT !.stack[top].k = @ + 1]
         IN IF /\ newX > 0 /\ newX < width - 1
               /\ newZ > 0 /\ newZ < height - 1
               /\ st.m[newZ][newX].isWall
            THEN carveEnter(
                   [next EXCEPT !.m = SetWall(@, f.x + dir.dx \div 2, f.z + dir.dz \div 2, FALSE)],
                   rnd, newX, newZ)
            ELSE next

RECURSIVE carveRun(_, _, _, _, _)
\* n steps of the running carve
carveRun(st, width, height, rnd, n) ==
  IF n = 0 THEN st
  ELSE IF n = 1 THEN carveStep(st, width, height, rnd)
  ELSE LET half == carveRun(st, width, height, rnd, n \div 2)
       IN IF Len(half.stack) >= 0
          THEN carveRun(half, width, height, rnd, n - n \div 2)
          ELSE half

\* carve(x, z), run until it returns: every interior odd cell is entered at
\* most once and each frame takes at most six steps
carve(m, width, height, rnd, cx, cz) ==
  carveRun(carveEnter([m |-> m, stack |-> <<>>], rnd, cx, cz), width, height, rnd,
           6 * (width \div 2) * (height \div 2)).m

\* the forced openings next to the end cell (lines 129-134)
OpenIfPresent(m, cx, cz) ==
  IF HasCell(m, Pos(cx, cz)) THEN SetWall(m, cx, cz, FALSE) ELSE m

\* a generator that forces the openings on the far side of the end cell
generateRandomMaze_OpensBeyondEnd(width, height, rnd) ==
  LET start == Pos(1, 1)
      end == Pos(width - 2, height - 2)
      carved == carve(NewGrid(width, height, TRUE), width, height, rnd, 1, 1)
      m1 == [carved EXCEPT ![start.z][start.x].isStart = TRUE,
                           ![start.z][start.x].isWall = FALSE]
      m2 == [m1 EXCEPT ![end.z][end.x].isEnd = TRUE,
                       ![end.z][end.x].isWall = FALSE]
      m3 == OpenIfPresent(m2, end.x, end.z + 1)
      m4 == OpenIfPresent(m3, end.x + 1, end.z)
  IN [maze |-> m4, start |-> start, end |-> end]

generateRandomMaze(width, height, rnd) ==
  LET start == Pos(1, 1)
      end == Pos(width - 2, height - 2)
      carved == carve(NewGrid(width, height, TRUE), width, height, rnd, 1, 1)
      m1 == [carved EXCEPT ![start.z][start.x].isStart = TRUE,
                           ![start.z][start.x].isWall = FALSE]
      m2 == [m1 EXCEPT ![end.z][end.x].isEnd = TRUE,
                       ![end.z][end.x].isWall = FALSE]
      m3 == OpenIfPresent(m2, end.x, end.z - 1)
      m4 == OpenIfPresent(m3, end.x - 1, end.z)
  IN [maze |-> m4, start |-> start, end |-> end]

\* The random sources explored: seed s fixes the draws of every carve call.
RandomSource(s) ==
  [c \in (0..20) \X (0..20) |->
     [i \in 1..3 |-> (s + c[1] + 2 * c[2] + i * (1 + c[1] \div 2)) % (i + 1)]]

Seeds == 1..MaxSeed

(***************************************************************************)
(* createPresetMaze: the fixed catalog.  Wall entries are <<z, x>>.        *)
(***************************************************************************)
PresetWalls0 ==
  {<<2, 1>>, <<2, 2>>, <<2, 3>>, <<2, 5>>, <<2, 6>>, <<2, 7>>, <<2, 9>>, <<2, 10>>, <<2, 11>>,
   <<4, 3>>, <<4, 4>>, <<4, 5>>, <<4, 7>>, <<4, 8>>, <<4, 9>>, <<4, 11>>, <<4, 12>>, <<4, 13>>,
   <<5, 3>>, <<5, 9>>,
   <<6, 1>>, <<6, 3>>, <<6, 5>>, <<6, 6>>, <<6, 7>>, <<6, 9>>, <<6, 11>>,
   <<7, 5>>, <<7, 11>>,
   <<8, 1>>, <<8, 2>>, <<8, 3>>, <<8, 5>>, <<8, 7>>, <<8, 8>>, <<8, 9>>, <<8, 11>>, <<8, 12>>, <<8, 13>>,
   <<9, 7>>,
   <<10, 1>>, <<10, 2>>, <<10, 3>>, <<10, 5>>, <<10, 6>>, <<10, 7>>, <<10, 9>>, <<10, 10>>, <<10, 11>>,
   <<11, 3>>, <<11, 9>>,
   <<12, 3>>, <<12, 5>>, <<12, 6>>, <<12, 7>>, <<12, 9>>, <<12, 11>>, <<12, 12>>, <<12, 13>>}

PresetWalls1 ==
  {<<2, 2>>, <<2, 4>>, <<2, 6>>, <<2, 8>>, <<2, 10>>, <<2, 12>>,
   <<3, 2>>, <<3, 6>>, <<3, 10>>,
   <<4, 2>>, <<4, 4>>, <<4, 6>>, <<4, 8>>, <<4, 10>>, <<4, 12>>,
   <<5, 4>>, <<5, 8>>, <<5, 12>>,
   <<6, 2>>, <<6, 4>>, <<6, 6>>, <<6, 8>>, <<6, 10>>, <<6, 12>>,
   <<7, 2>>, <<7, 6>>, <<7, 10>>,
   <<8, 2>>, <<8, 4>>, <<8, 6>>, <<8, 8>>, <<8, 10>>, <<8, 12>>,
   <<9, 4>>, <<9, 8>>, <<9, 12>>,
   <<10, 2>>, <<10, 4>>, <<10, 6>>, <<10, 8>>, <<10, 10>>, <<10, 12>>,
   <<11, 2>>, <<11, 6>>, <<11, 10>>,
   <<12, 2>>, <<12, 4>>, <<12, 6>>, <<12, 8>>, <<12, 10>>, <<12, 12>>}

PresetWalls2 ==
  {<<1, 7>>, <<2, 7>>, <<3, 7>>, <<4, 7>>, <<5, 7>>,
   <<7, 1>>, <<7, 2>>, <<7, 3>>, <<7, 4>>, <<7, 5>>, <<7, 9>>, <<7, 10>>, <<7, 11>>, <<7, 12>>, <<7, 13>>,
   <<9, 7>>, <<10, 7>>, <<11, 7>>, <<12, 7>>, <<13, 7>>,
   <<3, 3>>, <<3, 11>>, <<11, 3>>, <<11, 11>>,
   <<4, 3>>, <<4, 11>>, <<10, 3>>, <<10, 11>>,
   <<3, 4>>, <<3, 10>>, <<11, 4>>, <<11, 10>>}

PRESET_MAZES ==
  [i \in 0..2 |->
     [width |-> 15, height |-> 15,
      walls |-> CASE i = 0 -> PresetWalls0
                  [] i = 1 -> PresetWalls1
                  [] OTHER -> PresetWalls2]]

\* the % of JavaScript: the result takes the sign of the dividend
JsRem(a, n) == IF a >= 0 THEN a % n ELSE -((-a) % n)

\* PRESET_MAZES[presetIndex % PRESET_MAZES.length] is undefined outside 0..2,
\* and destructuring undefined raises a TypeError
createPresetMazeThrows(presetIndex) == JsRem(presetIndex, 3) \notin DOMAIN PRESET_MAZES

createPresetMaze(presetIndex) ==
  LET preset == PRESET_MAZES[JsRem(presetIndex, 3)]
      width == preset.width
      height == preset.height
      ring == [z \in 0..(height - 1) |-> [x \in 0..(width - 1) |->
                 NewCell(x, z, z = 0 \/ z = height - 1 \/ x = 0 \/ x = width - 1)]]
      walled == [z \in 0..(height - 1) |-> [x \in 0..(width - 1) |->
                   IF <<z, x>> \in preset.walls /\ z < height /\ x < width
                   THEN [ring[z][x] EXCEPT !.isWall = TRUE]
                   ELSE ring[z][x]]]
      start == Pos(1, 1)
      end == Pos(width - 2, height - 2)
      m1 == [walled EXCEPT ![start.z][start.x].isStart = TRUE,
                           ![start.z][start.x].isWall = FALSE]
      m2 == [m1 EXCEPT ![end.z][end.x].isEnd = TRUE,
                       ![end.z][end.x].isWall = FALSE]
  IN [maze |-> m2, start |-> start, end |-> end, width |-> width, height |-> height]

initialMaze == createPresetMaze(0)

(***************************************************************************)
(* Overlay operations of the store, as functions of the grid.              *)
(***************************************************************************)
\* the elements of a Position[] value
Range(q) == {q[i] : i \in DOMAIN q}

\* a marking that clamps a position outside the grid onto the nearest cell
MarkPath_Clamps(m, positions, k) ==
  LET clampZ(v) == IF v < 0 THEN 0 ELSE IF v \in DOMAIN m THEN v ELSE Cardinality(DOMAIN m) - 1
      clampX(v) == IF v < 0 THEN 0 ELSE IF v \in DOMAIN m[0] THEN v ELSE Cardinality(DOMAIN m[0]) - 1
  IN [z \in DOMAIN m |-> [x \in DOMAIN m[z] |->
        [m[z][x] EXCEPT !.isPath =
           @ \/ \E i \in k..Len(positions) :
                  clampX(positions[i].x) = x /\ clampZ(positions[i].z) = z]]]

RECURSIVE MarkPath(_, _, _)
\* path.forEach(pos => { if (cell exists) cell.isPath = true })
MarkPath(m, positions, k) ==
  IF k > Len(positions) THEN m
  ELSE LET pos == positions[k]
       IN MarkPath(IF HasCell(m, pos) THEN [m EXCEPT ![pos.z][pos.x].isPath = TRUE] ELSE m,
                   positions, k + 1)

RECURSIVE MarkVisited(_, _, _)
\* cells.forEach(pos => { if (cell exists) cell.isVisited = true })
MarkVisited(m, positions, k) ==
  IF k > Len(positions) THEN m
  ELSE LET pos == positions[k]
       IN MarkVisited(IF HasCell(m, pos) THEN [m EXCEPT ![pos.z][pos.x].isVisited = TRUE] ELSE m,
                      positions, k + 1)

\* a setPath that takes a cell already marked for one to unmark
setPathMaze_UnmarksMarked(m, p) ==
  [z \in DOMAIN m |-> [x \in DOMAIN m[z] |->
     [m[z][x] EXCEPT !.isPath = (Pos(x, z) \in Range(p)) /\ ~m[z][x].isPath]]]

\* the grid written by setPath(p)
setPathMaze(m, p) ==
  MarkPath([z \in DOMAIN m |-> [x \in DOMAIN m[z] |-> [m[z][x] EXCEPT !.isPath = FALSE]]], p, 1)

\* the grid written by setVisitedCells(cells)
setVisitedCellsMaze(m, cells) ==
  MarkVisited([z \in DOMAIN m |-> [x \in DOMAIN m[z] |-> [m[z][x] EXCEPT !.isVisited = FALSE]]],
              cells, 1)

\* the grid written by startVisualization()
startVisualizationMaze(m) ==
  [z \in DOMAIN m |-> [x \in DOMAIN m[z] |->
     [m[z][x] EXCEPT !.isVisited = FALSE, !.isPath = FALSE]]]

\* advanceVisualization(): the value returned
advanceVisualizationRet(cells, index) == index < Len(cells)

\* an advance that shows the current cell alone, dropping the earlier marks
advanceVisualizationMaze_NotCumulative(m, cells, index, p) ==
  IF index < Len(cells)
  THEN LET cell == cells[index + 1]
           cleared == [z \in DOMAIN m |-> [x \in DOMAIN m[z] |->
                         [m[z][x] EXCEPT !.isVisited = FALSE]]]
       IN IF HasCell(m, cell) THEN [cleared EXCEPT ![cell.z][cell.x].isVisited = TRUE]
          ELSE cleared
  ELSE MarkPath(m, p, 1)

\* an exhausting call that commits only the first cell of the path
advanceVisualizationMaze_FirstPathCell(m, cells, index, p) ==
  IF index < Len(cells)
  THEN LET cell == cells[index + 1]
       IN IF HasCell(m, cell) THEN [m EXCEPT ![cell.z][cell.x].isVisited = TRUE] ELSE m
  ELSE IF Len(p) = 0 THEN m ELSE MarkPath(m, <<p[1]>>, 1)

\* advanceVisualization(): the grid written
advanceVisualizationMaze(m, cells, index, p) ==
  IF index < Len(cells)
  THEN LET cell == cells[index + 1]
       IN IF HasCell(m, cell) THEN [m EXCEPT ![cell.z][cell.x].isVisited = TRUE] ELSE m
  ELSE MarkPath(m, p, 1)

\* a cursor that advances on the exhausting call too
advanceVisualizationIndex_Unbounded(cells, index) == index + 1

\* advanceVisualization(): the cursor written
advanceVisualizationIndex(cells, index) ==
  IF index < Len(cells) THEN index + 1 ELSE index

\* a moveBall that reports exhaustion one cell early
moveBallRet_StopsEarly(p, index) == index + 1 < Len(p)

\* moveBall(): the value returned
moveBallRet(p, index) == index < Len(p)

\* the cells of a grid that carry a flag
PathCells(m) == {c \in [x : DOMAIN m[0], z : DOMAIN m] : m[c.z][c.x].isPath}
VisitedFlagCells(m) == {c \in [x : DOMAIN m[0], z : DOMAIN m] : m[c.z][c.x].isVisited}

(***************************************************************************)
(* The external solver runAlgorithm(algorithm, maze, start, end).  It is   *)
(* a black box: any result within the bounds, or an exception.             *)
(***************************************************************************)
\* two cells of every grid, and a position outside every grid
SolverPositions == {Pos(1, 1), Pos(1, 2), Pos(21, 1)}

SeqsUpTo(S, n) == UNION {[1..k -> S] : k \in 0..n}

Reverse(q) == [i \in DOMAIN q |-> q[Len(q) + 1 - i]]

\* a visited order lists each cell once
VisitedOrders == {w \in SeqsUpTo(SolverPositions, MaxLen) : Cardinality(Range(w)) = Len(w)}

\* the results explored: any visited order within the bounds, with no route
\* (an empty path) or a path through all the visited cells, in either direction
SolverResults ==
  {[threw |-> FALSE, path |-> r[1], visited |-> r[2],
    stats |-> [solveTimeMs |-> 0, nodesExplored |-> Len(r[2]), pathLength |-> Len(r[1])]] :
     r \in UNION {{<<<<>>, w>>, <<w, w>>, <<Reverse(w), w>>} :
                    w \in VisitedOrders}}

SolverThrows == [threw |-> TRUE, path |-> <<>>, visited |-> <<>>, stats |-> Null]

runAlgorithm == SolverResults \cup {SolverThrows}

(***************************************************************************)
(* State.                                                                  *)
(***************************************************************************)
VARIABLES
  \* the store (MazeState)
  phase, selectedAlgorithm, maze, mazeWidth, mazeHeight, startPos, endPos,
  path, visitedCells, ballPosition, pathIndex, stats, visualizationMode,
  difficulty, visualizationIndex,
  \* the refs of GameOverlay
  hasSolvedRef, timeoutRef, visualizationIntervalRef,
  \* the pending timers of the event loop: [id, cb, stale]
  timers,
  \* history: the exception the last operation raised (Null if none; recorded
  \* under SpecObserved only), whether
  \* startGame has been called since the last restart, the solver calls since
  \* the last entry into menu, whether the solver raised, the path commits of
  \* the current visualization run, the moveBall calls that moved the ball
  \* since startMoving (-1 once another operation rewrote the path cursor),
  \* the visualization mode the solve effect branched on (Null before the
  \* solve), the timers the last restart found pending and cleared (0 again
  \* once the session leaves menu)
  raised, started, solverCalls, solverRaised, pathCommits, moves, solveMode, cancelled

storeVars ==
  <<phase, selectedAlgorithm, maze, mazeWidth, mazeHeight, startPos, endPos,
    path, visitedCells, ballPosition, pathIndex, stats, visualizationMode,
    difficulty, visualizationIndex>>
compVars == <<hasSolvedRef, timeoutRef, visualizationIntervalRef, timers>>
histVars == <<raised, started, solverCalls, solverRaised, pathCommits, moves, solveMode,
             cancelled>>
vars == <<storeVars, compVars, histVars>>

(***************************************************************************)
(* GameOverlay: refs, timers and effects.                                  *)
(***************************************************************************)
Comp ==
  [hasSolvedRef |-> hasSolvedRef, timeoutRef |-> timeoutRef,
   visualizationIntervalRef |-> visualizationIntervalRef, timers |-> timers]

SetComp(c) ==
  /\ hasSolvedRef' = c.hasSolvedRef
  /\ timeoutRef' = c.timeoutRef
  /\ visualizationIntervalRef' = c.visualizationIntervalRef
  /\ timers' = c.timers

\* timer handles are never reused while something still refers to them
FreshId(c) ==
  LET used == {t.id : t \in c.timers} \cup ({c.timeoutRef, c.visualizationIntervalRef} \ {NoTimer})
  IN CHOOSE n \in 1..(Cardinality(used) + 1) :
       n \notin used /\ \A k \in 1..(n - 1) : k \in used

\* clearTimeout(h) / clearInterval(h)
clearTimer(tm, h) == {t \in tm : t.id # h}

\* timeoutRef.current = setTimeout(cb, delay)
scheduleTimeout(c, cb) ==
  LET h == FreshId(c)
  IN [c EXCEPT !.timeoutRef = h,
               !.timers = @ \cup {[id |-> h, cb |-> cb, stale |-> FALSE]}]

\* a menu effect that resets the latch but leaves the pending timeout alone
menuEffect_KeepsTimeout(c) ==
  [hasSolvedRef |-> FALSE, timeoutRef |-> NoTimer, visualizationIntervalRef |-> NoTimer,
   timers |-> clearTimer(c.timers, c.visualizationIntervalRef)]

\* effect 1, phase === "menu": reset the latch, clear both timers
menuEffect(c) ==
  [hasSolvedRef |-> FALSE, timeoutRef |-> NoTimer, visualizationIntervalRef |-> NoTimer,
   timers |-> clearTimer(clearTimer(c.timers, c.timeoutRef), c.visualizationIntervalRef)]

\* effect 3, phase === "visualizing": start the interval
intervalEffect(c) ==
  LET h == FreshId(c)
  IN [c EXCEPT !.visualizationIntervalRef = h,
               !.timers = @ \cup {[id |-> h, cb |-> "tick", stale |-> FALSE]}]

\* an interval effect that returns no cleanup
intervalCleanup_Missing(c) == c

\* the cleanup returned by effect 3
intervalCleanup(c) ==
  IF c.visualizationIntervalRef # NoTimer
  THEN [c EXCEPT !.timers = clearTimer(@, c.visualizationIntervalRef)]
  ELSE c

\* the effects with dependency [phase] after a render in which phase went
\* from old to new: cleanups first, then the effects in declaration order
phaseEffects(c, old, new) ==
  IF old = new THEN c
  ELSE LET c1 == IF old = "visualizing" THEN intervalCleanup(c) ELSE c
           c2 == IF new = "menu" THEN menuEffect(c1) ELSE c1
       IN IF new = "visualizing" THEN intervalEffect(c2) ELSE c2

\* a solve effect that forgets to test the latch
solveGuard_NoLatch(ph, algo, latch) == ph = "solving" /\ algo # Null

\* effect 2: the condition under which the solver is run
solveGuard(ph, algo, latch) == ph = "solving" /\ algo # Null /\ ~latch

Min(a, b) == IF a < b THEN a ELSE b

\* a solve effect that takes the instant branch in step mode and the step
\* branch in instant mode
solveEffect_BranchesSwapped(c, o) ==
  /\ solverCalls' = Min(solverCalls + 1, 2)
  /\ solveMode' = IF o.threw THEN solveMode ELSE visualizationMode
  /\ IF o.threw
     THEN /\ SetComp([c EXCEPT !.hasSolvedRef = TRUE])
          /\ solverRaised' = TRUE
          /\ UNCHANGED <<stats, visitedCells, path, maze>>
     ELSE /\ solverRaised' = solverRaised
          /\ stats' = {o.stats}
          /\ visitedCells' = o.visited
          /\ path' = o.path
          /\ IF visualizationMode = "instant"
             THEN /\ maze' = maze
                  /\ SetComp(scheduleTimeout([c EXCEPT !.hasSolvedRef = TRUE],
                                             "startVisualization"))
             ELSE /\ maze' = setPathMaze(setVisitedCellsMaze(maze, o.visited), o.path)
                  /\ SetComp(scheduleTimeout([c EXCEPT !.hasSolvedRef = TRUE],
                                             "startMoving"))

\* effect 2, body: latch, solver call, stats, then the branch on the mode.
\* A solver exception leaves the effect after the latch is set.
solveEffect(c, o) ==
  /\ solverCalls' = Min(solverCalls + 1, 2)
  /\ solveMode' = IF o.threw THEN solveMode ELSE visualizationMode
  /\ IF o.threw
     THEN /\ SetComp([c EXCEPT !.hasSolvedRef = TRUE])
          /\ solverRaised' = TRUE
          /\ UNCHANGED <<stats, visitedCells, path, maze>>
     ELSE /\ solverRaised' = solverRaised
          /\ stats' = {o.stats}
          /\ visitedCells' = o.visited
          /\ path' = o.path
          /\ IF visualizationMode = "step"
             THEN /\ maze' = maze
                  /\ SetComp(scheduleTimeout([c EXCEPT !.hasSolvedRef = TRUE],
                                             "startVisualization"))
             ELSE /\ maze' = setPathMaze(setVisitedCellsMaze(maze, o.visited), o.path)
                  /\ SetComp(scheduleTimeout([c EXCEPT !.hasSolvedRef = TRUE],
                                             "startMoving"))

(***************************************************************************)
(* Init: the store as created, GameOverlay mounted in phase menu.          *)
(***************************************************************************)
Init ==
  /\ phase = "menu"
  /\ selectedAlgorithm = Null
  /\ maze = initialMaze.maze
  /\ mazeWidth = initialMaze.width
  /\ mazeHeight = initialMaze.height
  /\ startPos = initialMaze.start
  /\ endPos = initialMaze.end
  /\ path = <<>>
  /\ visitedCells = <<>>
  /\ ballPosition = initialMaze.start
  /\ pathIndex = 0
  /\ stats = NoStats
  /\ visualizationMode = "instant"
  /\ difficulty = "medium"
  /\ visualizationIndex = 0
  /\ hasSolvedRef = FALSE
  /\ timeoutRef = NoTimer
  /\ visualizationIntervalRef = NoTimer
  /\ timers = {}
  /\ raised = Null
  /\ started = FALSE
  /\ solverCalls = 0
  /\ solverRaised = FALSE
  /\ pathCommits = 0
  /\ moves = -1
  /\ solveMode = Null
  /\ cancelled = 0

(***************************************************************************)
(* Inputs of the user-facing operations.                                   *)
(***************************************************************************)
AlgorithmInputs == {"astar", "bfs"}
DifficultyInputs == {"easy"}
\* a negative index, the first entry, and an index beyond the catalog
PresetInputs == {-1, 0, MaxPreset}

\* the mazes generateRandomMaze returns for each difficulty and random source
RandomMazes ==
  [d \in DifficultyInputs \cup {"medium"} |-> [s \in Seeds |->
     generateRandomMaze(DIFFICULTY_SIZES[d].width, DIFFICULTY_SIZES[d].height,
                        RandomSource(s))]]

(***************************************************************************)
(* Store operations called by the user interface.                          *)
(***************************************************************************)
setAlgorithm(algo) ==
  /\ selectedAlgorithm' = algo
  /\ raised' = Null
  /\ started' = started
  /\ IF algo # selectedAlgorithm /\ solveGuard(phase, algo, hasSolvedRef)
     THEN \E o \in runAlgorithm : solveEffect(Comp, o)
     ELSE UNCHANGED <<stats, visitedCells, path, maze, compVars, solverCalls, solverRaised,
                      solveMode>>
  /\ UNCHANGED <<phase, mazeWidth, mazeHeight, startPos, endPos, ballPosition, pathIndex,
                 visualizationMode, difficulty, visualizationIndex, pathCommits, moves,
                 cancelled>>

setVisualizationMode(mode) ==
  /\ visualizationMode' = mode
  /\ raised' = Null
  /\ started' = started
  /\ UNCHANGED <<phase, selectedAlgorithm, maze, mazeWidth, mazeHeight, startPos, endPos,
                 path, visitedCells, ballPosition, pathIndex, stats, difficulty,
                 visualizationIndex, compVars, solverCalls, solverRaised, pathCommits, moves,
                 solveMode, cancelled>>

setDifficulty(diff) ==
  /\ difficulty' = diff
  /\ raised' = Null
  /\ started' = started
  /\ UNCHANGED <<phase, selectedAlgorithm, maze, mazeWidth, mazeHeight, startPos, endPos,
                 path, visitedCells, ballPosition, pathIndex, stats, visualizationMode,
                 visualizationIndex, compVars, solverCalls, solverRaised, pathCommits, moves,
                 solveMode, cancelled>>

\* a startGame without its guard
startGameGuard_Always(algo) == TRUE

\* if (state.selectedAlgorithm)
startGameGuard(algo) == algo # Null

startGame ==
  /\ raised' = Null
  /\ started' = TRUE
  /\ UNCHANGED <<selectedAlgorithm, mazeWidth, mazeHeight, startPos, endPos, ballPosition,
                 pathIndex, visualizationMode, difficulty, visualizationIndex, pathCommits>>
  /\ IF startGameGuard(selectedAlgorithm)
     THEN /\ phase' = "solving"
          /\ cancelled' = 0
          /\ LET c == phaseEffects(Comp, phase, "solving")
             IN IF phase # "solving" /\ solveGuard("solving", selectedAlgorithm, c.hasSolvedRef)
                THEN /\ \E o \in runAlgorithm : solveEffect(c, o)
                     /\ moves' = -1
                ELSE /\ SetComp(c)
                     /\ UNCHANGED <<stats, visitedCells, path, maze, solverCalls,
                                    solverRaised, moves, solveMode>>
     ELSE UNCHANGED <<phase, stats, visitedCells, path, maze, compVars, solverCalls,
                      solverRaised, moves, solveMode, cancelled>>

\* a session replacement that empties the path but keeps the path cursor
replaceSession_KeepsCursor(m, width, height) ==
  /\ maze' = m.maze
  /\ mazeWidth' = width
  /\ mazeHeight' = height
  /\ startPos' = m.start
  /\ endPos' = m.end
  /\ ballPosition' = m.start
  /\ path' = <<>>
  /\ visitedCells' = <<>>
  /\ pathIndex' = pathIndex
  /\ stats' = NoStats
  /\ visualizationIndex' = 0

\* the fields written by restart, generateMaze and loadPresetMaze alike
replaceSession(m, width, height) ==
  /\ maze' = m.maze
  /\ mazeWidth' = width
  /\ mazeHeight' = height
  /\ startPos' = m.start
  /\ endPos' = m.end
  /\ ballPosition' = m.start
  /\ path' = <<>>
  /\ visitedCells' = <<>>
  /\ pathIndex' = 0
  /\ stats' = NoStats
  /\ visualizationIndex' = 0

\* after a restart, what is left of the timers belongs to the superseded session
supersede(tm) == {[t EXCEPT !.stale = TRUE] : t \in tm}

restart(seed) ==
  LET size == DIFFICULTY_SIZES[difficulty]
      newMaze == RandomMazes[difficulty][seed]
      c == phaseEffects(Comp, phase, "menu")
  IN /\ phase' = "menu"
     /\ selectedAlgorithm' = Null
     /\ replaceSession(newMaze, size.width, size.height)
     /\ SetComp([c EXCEPT !.timers = supersede(@)])
     /\ cancelled' = Cardinality(timers \ c.timers)
     /\ solveMode' = Null
     /\ raised' = Null
     /\ started' = FALSE
     /\ solverCalls' = 0
     /\ solverRaised' = FALSE
     /\ pathCommits' = 0
     /\ moves' = -1
     /\ UNCHANGED <<visualizationMode, difficulty>>

generateMaze(seed) ==
  LET size == DIFFICULTY_SIZES[difficulty]
      newMaze == RandomMazes[difficulty][seed]
  IN /\ replaceSession(newMaze, size.width, size.height)
     /\ raised' = Null
     /\ started' = started
     /\ moves' = -1
     /\ UNCHANGED <<phase, selectedAlgorithm, visualizationMode, difficulty, compVars,
                    solverCalls, solverRaised, pathCommits, solveMode, cancelled>>

loadPresetMaze(preset) ==
  IF createPresetMazeThrows(preset)
  THEN UNCHANGED <<storeVars, compVars, started, solverCalls, solverRaised, pathCommits, moves,
                   solveMode, cancelled>>
  ELSE LET presetMaze == createPresetMaze(preset)
       IN /\ replaceSession(presetMaze, presetMaze.width, presetMaze.height)
          /\ started' = started
          /\ moves' = -1
          /\ UNCHANGED <<phase, selectedAlgorithm, visualizationMode, difficulty, compVars,
                         solverCalls, solverRaised, pathCommits, solveMode, cancelled>>

(***************************************************************************)
(* Timer callbacks of GameOverlay.                                         *)
(***************************************************************************)
\* setTimeout(() => { startVisualization(); }, 300) fires
startVisualizationTimeout(t) ==
  /\ t \in timers /\ t.cb = "startVisualization"
  /\ phase' = "visualizing"
  /\ visualizationIndex' = 0
  /\ maze' = startVisualizationMaze(maze)
  /\ SetComp(phaseEffects([Comp EXCEPT !.timers = @ \ {t}], phase, "visualizing"))
  /\ raised' = Null
  /\ started' = started
  /\ pathCommits' = 0
  /\ UNCHANGED <<selectedAlgorithm, mazeWidth, mazeHeight, startPos, endPos, path,
                 visitedCells, ballPosition, pathIndex, stats, visualizationMode,
                 difficulty, solverCalls, solverRaised, moves, solveMode, cancelled>>

\* setTimeout(() => { startMoving(); }, 500) fires
startMovingTimeout(t) ==
  /\ t \in timers /\ t.cb = "startMoving"
  /\ phase' = "moving"
  /\ pathIndex' = 0
  /\ SetComp(phaseEffects([Comp EXCEPT !.timers = @ \ {t}], phase, "moving"))
  /\ raised' = Null
  /\ started' = started
  /\ moves' = 0
  /\ UNCHANGED <<selectedAlgorithm, maze, mazeWidth, mazeHeight, startPos, endPos, path,
                 visitedCells, ballPosition, stats, visualizationMode, difficulty,
                 visualizationIndex, solverCalls, solverRaised, pathCommits, solveMode,
                 cancelled>>

\* what the interval callback does to the refs once advanceVisualization
\* has returned false: stop the interval, schedule startMoving
tickExhausted(c) ==
  scheduleTimeout(
    IF c.visualizationIntervalRef # NoTimer
    THEN [c EXCEPT !.timers = clearTimer(@, c.visualizationIntervalRef),
                   !.visualizationIntervalRef = NoTimer]
    ELSE c,
    "startMoving")

\* one tick of setInterval(..., 30)
visualizationTick(t) ==
  /\ t \in timers /\ t.cb = "tick"
  /\ raised' = Null
  /\ started' = started
  /\ LET hasMore == advanceVisualizationRet(visitedCells, visualizationIndex)
     IN /\ maze' = advanceVisualizationMaze(maze, visitedCells, visualizationIndex, path)
        /\ visualizationIndex' = advanceVisualizationIndex(visitedCells, visualizationIndex)
        /\ IF hasMore
           THEN UNCHANGED <<compVars, pathCommits>>
           ELSE /\ SetComp(tickExhausted(Comp))
                /\ pathCommits' = Min(pathCommits + 1, 2)
  /\ UNCHANGED <<phase, selectedAlgorithm, mazeWidth, mazeHeight, startPos, endPos, path,
                 visitedCells, ballPosition, pathIndex, stats, visualizationMode,
                 difficulty, solverCalls, solverRaised, moves, solveMode, cancelled>>

(***************************************************************************)
(* The driver of the moving phase: one heartbeat calls moveBall() and,     *)
(* when it reports exhaustion, complete().                                 *)
(***************************************************************************)
movingTick ==
  /\ phase = "moving"
  /\ raised' = Null
  /\ started' = started
  /\ IF moveBallRet(path, pathIndex)
     THEN /\ ballPosition' = path[pathIndex + 1]
          /\ pathIndex' = pathIndex + 1
          /\ moves' = IF moves >= 0 THEN moves + 1 ELSE moves
          /\ UNCHANGED <<phase, compVars>>
     ELSE /\ phase' = "completed"
          /\ SetComp(phaseEffects(Comp, phase, "completed"))
          /\ UNCHANGED <<ballPosition, pathIndex, moves>>
  /\ UNCHANGED <<selectedAlgorithm, maze, mazeWidth, mazeHeight, startPos, endPos, path,
                 visitedCells, stats, visualizationMode, difficulty, visualizationIndex,
                 solverCalls, solverRaised, pathCommits, solveMode, cancelled>>

\* every operation but loadPresetMaze
OtherOperations ==
  \/ \E algo \in AlgorithmInputs : setAlgorithm(algo)
  \/ \E mode \in VisualizationMode : setVisualizationMode(mode)
  \/ \E diff \in DifficultyInputs : setDifficulty(diff)
  \/ startGame
  \/ \E seed \in Seeds : restart(seed)
  \/ \E seed \in Seeds : generateMaze(seed)
  \/ \E t \in timers : startVisualizationTimeout(t)
  \/ \E t \in timers : startMovingTimeout(t)
  \/ \E t \in timers : visualizationTick(t)
  \/ movingTick

\* A loadPresetMaze call that raises leaves the whole state as it was.
Next ==
  \/ OtherOperations
  \/ \E preset \in PresetInputs : loadPresetMaze(preset) /\ raised' = Null

Spec == Init /\ [][Next]_vars

\* The same program, with the exception of a failing call recorded in raised.
loadPresetMazeObserved(preset) ==
  /\ loadPresetMaze(preset)
  /\ raised' = IF createPresetMazeThrows(preset) THEN "TypeError" ELSE Null

NextObserved ==
  \/ OtherOperations
  \/ \E preset \in PresetInputs : loadPresetMazeObserved(preset)

SpecObserved == Init /\ [][NextObserved]_vars

\* The event loop runs a timer that stays due, and the moving driver keeps
\* beating while the phase is moving.
timerFires ==
  \/ \E t \in timers : startVisualizationTimeout(t)
  \/ \E t \in timers : startMovingTimeout(t)
  \/ \E t \in timers : visualizationTick(t)

SpecFair == Spec /\ WF_vars(timerFires /\ raised' = Null) /\ WF_vars(movingTick)

(***************************************************************************)
(* The overlay operations of the store, called directly with any position  *)
(* sequence on a freshly loaded or generated grid.                         *)
(***************************************************************************)
\* two cells of every grid, a position beyond every grid, and a position
\* with a negative x
OverlayPositions == {Pos(1, 1), Pos(1, 2), Pos(21, 1), Pos(-1, 1)}

\* the sequences passed: without repetition up to the bound, one that names a
\* cell twice, and one with a negative z
OverlayInputs ==
  {q \in SeqsUpTo(OverlayPositions, MaxLen) : Cardinality(Range(q)) = Len(q)}
    \cup {<<Pos(1, 2), Pos(1, 2)>>, <<Pos(1, -1)>>}

\* the preset grid the store starts with, and a generated grid of size easy
OverlayGrids ==
  {[maze |-> initialMaze.maze, start |-> initialMaze.start, end |-> initialMaze.end,
    width |-> initialMaze.width, height |-> initialMaze.height],
   [maze |-> RandomMazes["easy"][1].maze, start |-> RandomMazes["easy"][1].start,
    end |-> RandomMazes["easy"][1].end, width |-> DIFFICULTY_SIZES["easy"].width,
    height |-> DIFFICULTY_SIZES["easy"].height]}

InitOverlay ==
  /\ phase = "menu"
  /\ selectedAlgorithm = Null
  /\ \E g \in OverlayGrids :
       /\ maze = g.maze
       /\ mazeWidth = g.width
       /\ mazeHeight = g.height
       /\ startPos = g.start
       /\ endPos = g.end
       /\ ballPosition = g.start
       /\ difficulty = IF g.width = DIFFICULTY_SIZES["easy"].width THEN "easy" ELSE "medium"
  /\ path = <<>>
  /\ visitedCells = <<>>
  /\ pathIndex = 0
  /\ stats = NoStats
  /\ visualizationMode = "instant"
  /\ visualizationIndex = 0
  /\ hasSolvedRef = FALSE
  /\ timeoutRef = NoTimer
  /\ visualizationIntervalRef = NoTimer
  /\ timers = {}
  /\ raised = Null
  /\ started = FALSE
  /\ solverCalls = 0
  /\ solverRaised = FALSE
  /\ pathCommits = 0
  /\ moves = -1
  /\ solveMode = Null
  /\ cancelled = 0

\* setPath(path)
setPath(p) ==
  /\ maze' = setPathMaze(maze, p)
  /\ path' = p
  /\ UNCHANGED <<phase, selectedAlgorithm, mazeWidth, mazeHeight, startPos, endPos,
                 visitedCells, ballPosition, pathIndex, stats, visualizationMode,
                 difficulty, visualizationIndex, compVars, histVars>>

\* setVisitedCells(cells)
setVisitedCells(cells) ==
  /\ maze' = setVisitedCellsMaze(maze, cells)
  /\ visitedCells' = cells
  /\ UNCHANGED <<phase, selectedAlgorithm, mazeWidth, mazeHeight, startPos, endPos,
                 path, ballPosition, pathIndex, stats, visualizationMode,
                 difficulty, visualizationIndex, compVars, histVars>>

NextOverlay ==
  \/ \E p \in OverlayInputs : setPath(p)
  \/ \E cells \in OverlayInputs : setVisitedCells(cells)

SpecOverlay == InitOverlay /\ [][NextOverlay]_vars

(***************************************************************************)
(* The generator alone: generateMaze at every difficulty, with every       *)
(* random source of the bound.                                             *)
(***************************************************************************)
ShuffleSeeds == 1..MaxShuffleSeed

GeneratedMazes ==
  [d \in Difficulty |-> [s \in ShuffleSeeds |->
     generateRandomMaze(DIFFICULTY_SIZES[d].width, DIFFICULTY_SIZES[d].height,
                        RandomSource(s))]]

\* generateMaze() with the random source of seed
generateMazeWith(seed) ==
  LET size == DIFFICULTY_SIZES[difficulty]
      newMaze == GeneratedMazes[difficulty][seed]
  IN /\ replaceSession(newMaze, size.width, size.height)
     /\ UNCHANGED <<phase, selectedAlgorithm, visualizationMode, difficulty, compVars,
                    histVars>>

\* the store after setDifficulty(d) and generateMaze()
InitGenerator ==
  /\ phase = "menu"
  /\ selectedAlgorithm = Null
  /\ \E d \in Difficulty, s \in ShuffleSeeds :
       /\ difficulty = d
       /\ maze = GeneratedMazes[d][s].maze
       /\ mazeWidth = DIFFICULTY_SIZES[d].width
       /\ mazeHeight = DIFFICULTY_SIZES[d].height
       /\ startPos = GeneratedMazes[d][s].start
       /\ endPos = GeneratedMazes[d][s].end
       /\ ballPosition = GeneratedMazes[d][s].start
  /\ path = <<>>
  /\ visitedCells = <<>>
  /\ pathIndex = 0
  /\ stats = NoStats
  /\ visualizationMode = "instant"
  /\ visualizationIndex = 0
  /\ hasSolvedRef = FALSE
  /\ timeoutRef = NoTimer
  /\ visualizationIntervalRef = NoTimer
  /\ timers = {}
  /\ raised = Null
  /\ started = FALSE
  /\ solverCalls = 0
  /\ solverRaised = FALSE
  /\ pathCommits = 0
  /\ moves = -1
  /\ solveMode = Null
  /\ cancelled = 0

NextGenerator ==
  \/ \E diff \in Difficulty : setDifficulty(diff)
  \/ \E seed \in ShuffleSeeds : generateMazeWith(seed)

SpecGenerator == InitGenerator /\ [][NextGenerator]_vars

(***************************************************************************)
(* The store on its own terms: moveBall is an exported operation with no   *)
(* test of the phase, so any holder of the store may call it between any   *)
(* two other steps.                                                        *)
(***************************************************************************)
moveBall ==
  /\ raised' = Null
  /\ started' = started
  /\ IF moveBallRet(path, pathIndex)
     THEN /\ ballPosition' = path[pathIndex + 1]
          /\ pathIndex' = pathIndex + 1
          /\ moves' = IF moves >= 0 THEN moves + 1 ELSE moves
     ELSE UNCHANGED <<ballPosition, pathIndex, moves>>
  /\ UNCHANGED <<phase, selectedAlgorithm, maze, mazeWidth, mazeHeight, startPos, endPos,
                 path, visitedCells, stats, visualizationMode, difficulty,
                 visualizationIndex, compVars, solverCalls, solverRaised, pathCommits,
                 solveMode, cancelled>>

NextStore ==
  \/ Next
  \/ moveBall

SpecStore == Init /\ [][NextStore]_vars

(***************************************************************************)
(* Properties.                                                             *)
(***************************************************************************)
restartCall == \E seed \in Seeds : restart(seed)
generateMazeCall == \E seed \in Seeds : generateMaze(seed)
startVisualizationCall == \E t \in timers : startVisualizationTimeout(t)
visualizationTickCall == \E t \in timers : visualizationTick(t)

\* C1: between two resets to menu the solver is invoked at most once, and
\* exactly once as soon as the session has entered solving: the latch is set
\* exactly when the solver has been called, no call is counted in menu, and
\* every state outside menu has seen exactly one call.
C1_SolverOncePerSession ==
  /\ solverCalls <= 1
  /\ hasSolvedRef <=> (solverCalls = 1)
  /\ phase = "menu" => solverCalls = 0
  /\ phase # "menu" => solverCalls = 1

\* solving entered again after the timers of the session have fired: the solve
\* effect was triggered once more and the latch suppressed it
C1_Witness ==
  phase = "solving" /\ solverCalls = 1 /\ stats # NoStats /\ timers = {}

\* C2: no timer scheduled before a restart is still pending after it, so no
\* callback of a superseded session ever runs; in menu no timer is pending.
C2_NoStaleTimer ==
  /\ \A t \in timers : ~t.stale
  /\ phase = "menu" => timers = {}

\* a restart that found a timer pending
C2_Witness == cancelled > 0 /\ phase = "menu" /\ timers = {}

\* C3: every change of phase is a documented edge.
DocumentedEdge(from, to) ==
  \/ to = "menu"
  \/ from = "menu" /\ to = "solving" /\ selectedAlgorithm # Null
  \/ from = "solving" /\ to = "visualizing" /\ solveMode = "step"
  \/ from = "solving" /\ to = "moving" /\ solveMode = "instant"
  \/ from = "visualizing" /\ to = "moving"
  \/ from = "moving" /\ to = "completed"

C3_DocumentedEdges == [][phase' # phase => DocumentedEdge(phase, phase')]_vars

\* C4: startGame with no algorithm selected changes nothing in the store and
\* nothing in the component.
C4_StartGameNoop ==
  [][(startGame /\ selectedAlgorithm = Null) => UNCHANGED <<storeVars, compVars>>]_vars

\* startGame has been called in menu with no algorithm selected
C4_Witness == started /\ phase = "menu" /\ selectedAlgorithm = Null

\* C5: completed is left only by restart, and only for menu.
C5_CompletedTerminal ==
  [][phase = "completed" =>
       \/ phase' = "completed"
       \/ phase' = "menu" /\ restartCall]_vars

\* C6: the visualization cursor stays within 0..visitedCells.length and
\* decreases only to 0, in startVisualization, restart, generateMaze or
\* loadPresetMaze.
C6_CursorBoundedMonotonic ==
  [][/\ 0 <= visualizationIndex /\ visualizationIndex <= Len(visitedCells)
     /\ 0 <= visualizationIndex' /\ visualizationIndex' <= Len(visitedCells')
     /\ visualizationIndex' < visualizationIndex =>
          /\ visualizationIndex' = 0
          /\ \/ startVisualizationCall
             \/ restartCall
             \/ generateMazeCall
             \/ \E preset \in PresetInputs : loadPresetMaze(preset)]_vars

\* the cursor at the end of a visited order of two cells or more
C6_Witness ==
  phase = "visualizing" /\ visualizationIndex = Len(visitedCells) /\ Len(visitedCells) >= 2

\* C7: the tick that finds the visited order exhausted leaves isPath set on
\* exactly the cells of path, stops the interval, and is the only such commit
\* of its visualization run.
C7_PathCommittedOnce ==
  [][(visualizationTickCall /\ visualizationIndex = Len(visitedCells)) =>
       /\ PathCells(maze') = {c \in Range(path) : HasCell(maze, c)}
       /\ \A t \in timers' : t.cb # "tick"
       /\ pathCommits' = 1]_vars

\* a visualization run that has committed a path of two cells
C7_Witness ==
  phase = "visualizing" /\ pathCommits = 1 /\ Cardinality(PathCells(maze)) = 2

\* C8: after startMoving, k calls of moveBall that returned true leave
\* pathIndex = k and the ball on path[k-1]; the call that returns false comes
\* after exactly path.length such calls and moves nothing.
C8_MoveBallWalksPath ==
  moves >= 0 =>
    /\ pathIndex = moves
    /\ moves <= Len(path)
    /\ moves > 0 => ballPosition = path[moves]
    /\ phase = "completed" => moves = Len(path)

\* a path of two cells walked to its end
C8_Witness == phase = "completed" /\ moves = 2 /\ Len(path) = 2 /\ path[1] # path[2]

\* C9: after any call of restart, generateMaze or loadPresetMaze the session
\* state is replaced.
SessionReplaced ==
  /\ path = <<>>
  /\ visitedCells = <<>>
  /\ pathIndex = 0
  /\ visualizationIndex = 0
  /\ stats = NoStats
  /\ PathCells(maze) = {}
  /\ VisitedFlagCells(maze) = {}
  /\ ballPosition = startPos

C9_ResetReplacesSession ==
  [][(\/ restartCall
      \/ generateMazeCall
      \/ \E preset \in PresetInputs : loadPresetMazeObserved(preset)) => SessionReplaced']_vars

\* C10: a solver exception never leaves the session in solving with the latch
\* set, no timer pending and no failure surfaced.
FailureSurfaced == FALSE

C10_SolverFailureRecovered ==
  ~(solverRaised /\ hasSolvedRef /\ phase = "solving" /\ timers = {} /\ ~FailureSurfaced)

\* C11: once the solver has returned in solving (its stats are stored and the
\* timeout it scheduled is pending), the session reaches moving unless a reset
\* (restart, generateMaze, loadPresetMaze) empties the stats.
C11_EventuallyMoving ==
  (phase = "solving" /\ stats # NoStats /\ timers # {}) ~> (phase = "moving" \/ stats = NoStats)

\* C12: setPath and setVisitedCells are idempotent: in every state the
\* overlay operations can produce, calling setPath again with the path last
\* passed, or setVisitedCells again with the cells last passed, writes the
\* same grid (the same flag on every cell) and the same sequence.
C12_OverlayIdempotent ==
  /\ setPathMaze(maze, path) = maze
  /\ setVisitedCellsMaze(maze, visitedCells) = maze

\* both operations have acted, on sequences with cells inside and outside the
\* grid, and on a grid that carried other flags before
C12_Witness ==
  /\ Len(path) = 2 /\ Len(visitedCells) = 2
  /\ PathCells(maze) = {Pos(1, 2)}
  /\ VisitedFlagCells(maze) = {Pos(1, 1), Pos(1, 2)}

GridCells == [x : DOMAIN maze[0], z : DOMAIN maze]

\* C13: in every reachable state the grid has mazeHeight rows of mazeWidth
\* cells, exactly one cell with isStart, at startPos = (1,1), exactly one with
\* isEnd, at endPos = (width-2, height-2), both open, and every cell of the
\* boundary ring is a wall.
C13_GridWellFormed ==
  /\ DOMAIN maze = 0..(mazeHeight - 1)
  /\ \A z \in DOMAIN maze : DOMAIN maze[z] = 0..(mazeWidth - 1)
  /\ startPos = Pos(1, 1)
  /\ endPos = Pos(mazeWidth - 2, mazeHeight - 2)
  /\ {c \in GridCells : maze[c.z][c.x].isStart} = {startPos}
  /\ {c \in GridCells : maze[c.z][c.x].isEnd} = {endPos}
  /\ ~maze[startPos.z][startPos.x].isWall
  /\ ~maze[endPos.z][endPos.x].isWall
  /\ \A c \in GridCells :
       (c.x = 0 \/ c.x = mazeWidth - 1 \/ c.z = 0 \/ c.z = mazeHeight - 1)
         => maze[c.z][c.x].isWall

\* a generated grid of size easy in the middle of a playback
C13_Witness ==
  /\ mazeWidth = DIFFICULTY_SIZES["easy"].width
  /\ phase = "visualizing"
  /\ VisitedFlagCells(maze) # {}

\* C14: loadPresetMaze(p) raises for no integer p, and loads the catalog entry
\* p mod 3: a 15 x 15 grid with start (1,1) and end (13,13).
C14_PresetNeverFatal ==
  [][\A preset \in PresetInputs :
       loadPresetMazeObserved(preset) =>
         /\ raised' = Null
         /\ maze' = createPresetMaze(preset % 3).maze
         /\ mazeWidth' = 15 /\ mazeHeight' = 15
         /\ startPos' = Pos(1, 1) /\ endPos' = Pos(13, 13)]_vars

\* C15: a generateMaze or loadPresetMaze call made in solving or visualizing
\* leaves no timeout and no interval pending.
C15_ResetCancelsTimers ==
  [][(/\ phase \in {"solving", "visualizing"}
      /\ \/ generateMazeCall
         \/ \E preset \in PresetInputs : loadPresetMaze(preset))
       => timers' = {}]_vars

\* C16: whenever phase is not visualizing no visualization tick is pending,
\* so no tick runs advanceVisualization outside visualizing.
C16_TickCancellable ==
  phase # "visualizing" => \A t \in timers : t.cb # "tick"

\* a step-mode session that left visualizing for solving before the tick loop
\* had exhausted the visited cells
C16_Witness ==
  /\ phase = "solving" /\ solveMode = "step" /\ stats # NoStats
  /\ pathCommits = 0 /\ timers = {}

InGrid(q) == {c \in Range(q) : HasCell(maze, c)}

\* C17: the step in which the solver returns branches on the mode.  In step
\* mode it stores visitedCells and path, leaves the grid without any isVisited
\* or isPath flag and schedules startVisualization; in instant mode it sets
\* both overlays and schedules startMoving.  With the timeout of the step
\* branch pending, the phase that follows solving is visualizing (or menu, by
\* restart); a session solved in instant mode leaves solving for moving (or
\* menu) and is never in visualizing.
C17_SolveBranchesOnMode ==
  [][/\ (solveMode = Null /\ solveMode' # Null) =>
          /\ visualizationMode = "step" =>
               /\ maze' = maze
               /\ PathCells(maze') = {} /\ VisitedFlagCells(maze') = {}
               /\ {t.cb : t \in timers'} = {"startVisualization"}
          /\ visualizationMode = "instant" =>
               /\ PathCells(maze') = {c \in Range(path') : HasCell(maze', c)}
               /\ VisitedFlagCells(maze') = {c \in Range(visitedCells') : HasCell(maze', c)}
               /\ {t.cb : t \in timers'} = {"startMoving"}
     /\ (/\ phase = "solving" /\ phase' # phase /\ solveMode = "step"
         /\ \E t \in timers : t.cb = "startVisualization") =>
          phase' \in {"visualizing", "menu"}
     /\ (phase = "solving" /\ phase' # phase /\ solveMode = "instant") =>
          phase' \in {"moving", "menu"}
     /\ solveMode' = "instant" => phase' # "visualizing"]_vars

\* a session solved in instant mode, with both overlays on the grid, that has
\* reached moving
C17_Witness ==
  /\ solveMode = "instant" /\ phase = "moving"
  /\ Len(path) = 2 /\ PathCells(maze) = InGrid(path) /\ PathCells(maze) # {}
  /\ VisitedFlagCells(maze) = InGrid(visitedCells)

OpenCells == {c \in GridCells : ~maze[c.z][c.x].isWall}

Adjacent(c) ==
  {Pos(c.x + 1, c.z), Pos(c.x - 1, c.z), Pos(c.x, c.z + 1), Pos(c.x, c.z - 1)}

\* one round of the search: the open neighbours of the frontier not seen yet
ReachStep(r, open) ==
  LET next == ((UNION {Adjacent(c) : c \in r.frontier}) \cap open) \ r.seen
  IN [seen |-> r.seen \cup next, frontier |-> next]

RECURSIVE ReachRun(_, _, _)
\* n rounds of the search
ReachRun(r, open, n) ==
  IF n = 0 THEN r
  ELSE IF n = 1 THEN ReachStep(r, open)
  ELSE LET half == ReachRun(r, open, n \div 2)
       IN IF Cardinality(half.seen) >= 0
          THEN ReachRun(half, open, n - n \div 2)
          ELSE half

\* the open cells joined to the start cell through open cells
ReachedFromStart ==
  ReachRun([seen |-> {startPos}, frontier |-> {startPos}], OpenCells,
           Cardinality(OpenCells)).seen

\* C19: in every generated maze all interior cells with odd coordinates are
\* open and joined to the start cell through open cells, and so are the end
\* cell and its two forced-open neighbours; a neighbour of start is open.
C19_GeneratedMazeConnected ==
  LET reached == ReachedFromStart
  IN /\ \A c \in GridCells :
          (c.x % 2 = 1 /\ c.z % 2 = 1) => c \in reached
     /\ {endPos, Pos(endPos.x, endPos.z - 1), Pos(endPos.x - 1, endPos.z)} \subseteq reached
     /\ Adjacent(startPos) \cap OpenCells # {}

\* a generated maze of the largest size
C19_Witness ==
  /\ mazeWidth = DIFFICULTY_SIZES["hard"].width
  /\ Cardinality(OpenCells) >= 199

\* the positions of q with 0 <= x < mazeWidth and 0 <= z < mazeHeight
InBox(q) ==
  {c \in Range(q) : c.x \in 0..(mazeWidth - 1) /\ c.z \in 0..(mazeHeight - 1)}

\* C20: positions outside [0,width) x [0,height), negative ones included, are
\* ignored.  After setPath and setVisitedCells the flagged cells are exactly
\* the positions of the argument that lie in the grid; an advancing
\* advanceVisualization on any position flags it if it lies in the grid and
\* changes no flag otherwise; an exhausting one adds the positions of the
\* path that lie in the grid.
C20_OutOfGridIgnored ==
  /\ PathCells(maze) = InBox(path)
  /\ VisitedFlagCells(maze) = InBox(visitedCells)
  /\ \A c \in OverlayPositions \cup {Pos(1, -1)} :
       LET advanced == advanceVisualizationMaze(maze, <<c>>, 0, path)
       IN /\ VisitedFlagCells(advanced) = VisitedFlagCells(maze) \cup InBox(<<c>>)
          /\ PathCells(advanced) = PathCells(maze)
  /\ LET exhausted == advanceVisualizationMaze(maze, <<>>, 0, visitedCells)
     IN /\ PathCells(exhausted) = PathCells(maze) \cup InBox(visitedCells)
        /\ VisitedFlagCells(exhausted) = VisitedFlagCells(maze)

\* a path with a negative x and a cell of the grid, a visited order with a
\* negative z only
C20_Witness ==
  /\ path = <<Pos(-1, 1), Pos(1, 2)>> /\ PathCells(maze) = {Pos(1, 2)}
  /\ visitedCells = <<Pos(1, -1)>> /\ VisitedFlagCells(maze) = {}

\* C21: the path cursor stays within 0..path.length in every reachable state,
\* however the solve step, moveBall, startMoving and the resets interleave,
\* and while it is positive the ball is on path[pathIndex-1].
C21_PathCursorBounded ==
  /\ 0 <= pathIndex
  /\ pathIndex <= Len(path)
  /\ pathIndex > 0 => ballPosition = path[pathIndex]

\* the ball moved onto the first of two path cells between the solve step and
\* its pending startMoving
C21_Witness ==
  /\ phase = "solving" /\ timers # {}
  /\ Len(path) = 2 /\ pathIndex = 1 /\ ballPosition = path[1] /\ ballPosition # startPos
====
